---- MODULE Spec2Model ----
\* The prediction-serving pipeline of ml-real-estate-app/app.py: the two lazily
\* filled model globals, the predict-house / predict-loan handlers, the
\* Prediction table, the dashboard history query and the report download,
\* run by the request threads of the Flask server.
EXTENDS Integers, Sequences, FiniteSets, TLC

\* ---------------------------------------------------------------- bounds
NumThreads == 2
MaxRequests == 2

\* ------------------------------------------------------ program constants
HistoryLimit == 5
DefaultConfidence == 942
ReportIdWidth == 4

Threads == 1..NumThreads
Users == {1, 2}
Times == {0, 1}
Kinds == {"house", "loan"}
None == "None"
Model == "Model"

VARIABLES
    fileOnDisk,   \* kind -> BOOLEAN: models/<kind>..._model.pkl exists
    model,        \* kind -> None | Model: the globals house_model, loan_model
    store,        \* the Prediction table: row i has primary key i
    pc,           \* thread -> position in the handler it runs
    req,          \* thread -> the request it serves (endpoint, current_user, form)
    loc,          \* thread -> the handler's local variables
    outbox,       \* the response sent last, with the request and locals it ended
    budget,       \* requests the clients still send
    loadCount     \* kind -> number of joblib.load executions so far

vars == <<fileOnDisk, model, store, pc, req, loc, outbox, budget, loadCount>>

\* ------------------------------------------------------------ form values
\* float(s) for the raw strings the clients send; a string outside the table
\* makes float() raise ValueError.
FloatOf ==
    ("0" :> 0) @@ ("1" :> 1) @@ ("2" :> 2) @@ ("3" :> 3) @@ ("4" :> 4) @@ ("7" :> 7)
    @@ ("360" :> 360) @@ ("150" :> 150) @@ ("1800" :> 1800) @@ ("5000" :> 5000)
    @@ ("98001" :> 98001)

HouseFields == <<"bedrooms", "bathrooms", "flat_area", "lot_area", "condition", "grade", "zipcode">>
LoanNumFields == <<"applicant_income", "coapplicant_income", "loan_amount", "loan_term", "credit_history">>
LoanRawFields == <<"property_area", "married", "education">>
LoanFields == LoanNumFields \o LoanRawFields

HouseFormOK ==
    [bedrooms |-> "3", bathrooms |-> "2", flat_area |-> "1800", lot_area |-> "5000",
     condition |-> "4", grade |-> "7", zipcode |-> "98001"]

HouseForms ==
    { HouseFormOK,
      [HouseFormOK EXCEPT !.grade = "seven"],
      [f \in DOMAIN HouseFormOK \ {"zipcode"} |-> HouseFormOK[f]] }

LoanFormOK ==
    [applicant_income |-> "5000", coapplicant_income |-> "0", loan_amount |-> "150",
     loan_term |-> "360", credit_history |-> "1",
     property_area |-> "Rural", married |-> "Yes", education |-> "Graduate"]

LoanForms ==
    { LoanFormOK,
      [LoanFormOK EXCEPT !.loan_amount = ""],
      [f \in DOMAIN LoanFormOK \ {"married"} |-> LoanFormOK[f]] }

AreaValues == {"Urban", "Semiurban", "Rural", "rural", ""}
MarriedValues == {"Yes", "No", "yes"}
EducationValues == {"Graduate", "Not Graduate"}
IncomeValues == {"5000", "0", "abc"}

AllLoanForms ==
    { [LoanFormOK EXCEPT !.applicant_income = i, !.property_area = a,
                         !.married = m, !.education = e] :
        i \in IncomeValues, a \in AreaValues, m \in MarriedValues, e \in EducationValues }
    \cup { [f \in DOMAIN LoanFormOK \ {"property_area"} |-> LoanFormOK[f]] }

\* ------------------------------------------------------- feature building
\* request.form[f]: a missing key raises (Bad Request) KeyError; float() of an
\* unparseable string raises ValueError.
NumFieldError(form, f) ==
    IF f \notin DOMAIN form THEN "KeyError"
    ELSE IF form[f] \notin DOMAIN FloatOf THEN "ValueError"
    ELSE "ok"

RawFieldError(form, f) == IF f \notin DOMAIN form THEN "KeyError" ELSE "ok"

\* The dict display evaluates its values in order: the first failing one raises.
RECURSIVE FirstError(_, _, _, _)
FirstError(form, nums, raws, i) ==
    IF i > Len(nums) + Len(raws) THEN "ok"
    ELSE LET e == IF i <= Len(nums) THEN NumFieldError(form, nums[i])
                  ELSE RawFieldError(form, raws[i - Len(nums)])
         IN  IF e # "ok" THEN e ELSE FirstError(form, nums, raws, i + 1)

HouseDataError(form) == FirstError(form, HouseFields, <<>>, 1)
LoanDataError(form) == FirstError(form, LoanNumFields, LoanRawFields, 1)

\* data: the dict of predict_house, as its items <<key, type, value>> in
\* insertion order.
HouseData(form) ==
    [i \in 1..Len(HouseFields) |-> <<HouseFields[i], "float", FloatOf[form[HouseFields[i]]]>>]

\* data: the dict of predict_loan; the three categorical fields stay raw strings.
LoanData(form) ==
    [i \in 1..Len(LoanFields) |->
        IF i <= Len(LoanNumFields)
        THEN <<LoanFields[i], "float", FloatOf[form[LoanFields[i]]]>>
        ELSE <<LoanFields[i], "str", form[LoanFields[i]]>>]

\* data[key]
Get(data, key) == data[CHOOSE i \in 1..Len(data) : data[i][1] = key][3]

\* AreaCode with the codes of "Semiurban" and "Rural" exchanged.
AreaCodeSwapped(v) ==
    CASE v = "Urban" -> 0
      [] v = "Semiurban" -> 2
      [] v = "Rural" -> 1
      [] OTHER -> 0

\* area_map.get(v, 0)
AreaCode(v) ==
    CASE v = "Urban" -> 0
      [] v = "Semiurban" -> 1
      [] v = "Rural" -> 2
      [] OTHER -> 0

MarriedFlag(v) == IF v = "Yes" THEN 1 ELSE 0

EducationFlag(v) == IF v = "Graduate" THEN 1 ELSE 0

\* list(data.values())
HouseFeatures(data) == [i \in 1..Len(data) |-> data[i][3]]

LoanFeatures(data) ==
    << Get(data, "applicant_income"), Get(data, "coapplicant_income"), Get(data, "loan_amount"),
       Get(data, "loan_term"), Get(data, "credit_history"),
       AreaCode(Get(data, "property_area")),
       MarriedFlag(Get(data, "married")),
       EducationFlag(Get(data, "education")) >>

\* ------------------------------------------------------------ the models
\* What model.predict(final_features) gives back: <<v>> for prediction[0] = v,
\* <<>> when the call raises. The artifact is opaque, so every output of the
\* set can come back for every feature vector of the right length.
HousePrices == {45012345}
LoanClasses == {0, 1, 2}

PredictOutcomes(kind, features) ==
    IF kind = "house"
    THEN IF Len(features) = Len(HouseFields) THEN {<<>>} \cup {<<p>> : p \in HousePrices} ELSE {<<>>}
    ELSE IF Len(features) = Len(LoanFields) THEN {<<>>} \cup {<<c>> : c \in LoanClasses} ELSE {<<>>}

\* The digit groups of n, most significant first: 1234567 -> <<1, 234, 567>>.
RECURSIVE Groups(_)
Groups(n) == IF n < 1000 THEN <<n>> ELSE Append(Groups(n \div 1000), n % 1000)

Abs(n) == IF n < 0 THEN 0 - n ELSE n

\* f"${x:,.2f}" for a price of c hundredths: the symbol, the sign, the
\* comma-separated groups of the whole part, the two decimals.
FormatMoney(c) == <<"$", IF c < 0 THEN "-" ELSE "", Groups(Abs(c) \div 100), Abs(c) % 100>>

HouseResultText(prediction) == FormatMoney(prediction[1])

\* "Approved" if prediction[0] == 1 else "Flagged for Review" (the labels' emoji left out)
LoanResultText(prediction) == IF prediction[1] = 1 THEN <<"Approved">> ELSE <<"Flagged for Review">>

ResultText(kind, prediction) ==
    IF kind = "house" THEN HouseResultText(prediction) ELSE LoanResultText(prediction)

HouseExplain ==
    << [factor |-> "Location (Zipcode)", impact |-> "High"],
       [factor |-> "Space (Sqft)", impact |-> "Medium"],
       [factor |-> "State (Condition)", impact |-> "Moderate"] >>

LoanExplain ==
    << [factor |-> "Credit History", impact |-> "Critical"],
       [factor |-> "Income-to-Debt", impact |-> "High"],
       [factor |-> "Education Level", impact |-> "Minor"] >>

DataError(kind, form) == IF kind = "house" THEN HouseDataError(form) ELSE LoanDataError(form)
Data(kind, form) == IF kind = "house" THEN HouseData(form) ELSE LoanData(form)
Features(kind, data) == IF kind = "house" THEN HouseFeatures(data) ELSE LoanFeatures(data)

\* ------------------------------------------------------------------ JSON
\* json.dumps(data): the object's members in the dict's order, a float written
\* as a number literal and a str as a string literal.
JsonDumps(data) ==
    [i \in 1..Len(data) |->
        [name |-> data[i][1],
         literal |-> IF data[i][2] = "float" THEN "number" ELSE "string",
         text |-> data[i][3]]]

\* json.loads(text): the dict the text denotes, as its items in order.
JsonLoads(text) ==
    [i \in 1..Len(text) |->
        <<text[i].name, IF text[i].literal = "number" THEN "float" ELSE "str", text[i].text>>]

\* ------------------------------------------------------- the Prediction table
\* Prediction(type=..., input_json=..., result_text=..., user_id=...) as the
\* INSERT of the commit stores it: the key is the next rowid, confidence and
\* timestamp take their column defaults.
NewPrediction(table, kind, data, result, user, now) ==
    [id |-> Len(table) + 1, type |-> kind, input_json |-> JsonDumps(data),
     result_text |-> result, confidence |-> DefaultConfidence,
     timestamp |-> now, user_id |-> user]

\* Insert writing the new row over the newest stored one.
InsertOverwriting(table, row) ==
    IF table = <<>> THEN <<row>> ELSE [table EXCEPT ![Len(table)] = row]

\* db.session.add(pred_entry); db.session.commit()
Insert(table, row) == Append(table, row)

\* Prediction.query.get(id)
GetById(table, id) == IF id \in 1..Len(table) THEN <<table[id]>> ELSE <<>>

\* ------------------------------------------------------------- the history
\* filter_by(user_id=owner), in rowid order
FilterByUser(table, owner) == SelectSeq(table, LAMBDA r : r.user_id = owner)

\* Row a sorts before row b under ORDER BY timestamp DESC; SQL leaves the order
\* of rows with equal timestamps open, tieAsc picks one of the two rowid orders.
Before(a, b, tieAsc) ==
    \/ a.timestamp > b.timestamp
    \/ a.timestamp = b.timestamp /\ (IF tieAsc THEN a.id < b.id ELSE a.id > b.id)

RECURSIVE InsertSorted(_, _, _)
InsertSorted(r, rows, tieAsc) ==
    IF rows = <<>> THEN <<r>>
    ELSE IF Before(r, Head(rows), tieAsc) THEN <<r>> \o rows
    ELSE <<Head(rows)>> \o InsertSorted(r, Tail(rows), tieAsc)

\* order_by(Prediction.timestamp.desc())
RECURSIVE OrderByTimestampDesc(_, _)
OrderByTimestampDesc(rows, tieAsc) ==
    IF rows = <<>> THEN <<>>
    ELSE InsertSorted(Head(rows), OrderByTimestampDesc(Tail(rows), tieAsc), tieAsc)

\* Limit with the limit left out.
LimitIgnored(rows, n) == rows

\* limit(n)
Limit(rows, n) == IF Len(rows) <= n THEN rows ELSE SubSeq(rows, 1, n)

\* Prediction.query.filter_by(user_id=current_user.id)
\*     .order_by(Prediction.timestamp.desc()).limit(5).all()
History(table, owner, tieAsc) ==
    Limit(OrderByTimestampDesc(FilterByUser(table, owner), tieAsc), HistoryLimit)

\* ------------------------------------------------------------- the report
FullName(user) == <<"Client", user>>

RECURSIVE Digits(_)
Digits(n) == IF n < 10 THEN <<n>> ELSE Append(Digits(n \div 10), n % 10)

\* f"{n:04d}": the decimal digits, zero-padded on the left to the width
ZeroPad(n, width) ==
    LET ds == Digits(n)
    IN  IF Len(ds) >= width THEN ds ELSE [i \in 1..(width - Len(ds)) |-> 0] \o ds

\* str.title() of the words the report prints
TitleOf ==
    ("house" :> "House") @@ ("loan" :> "Loan")
    @@ ("bedrooms" :> "Bedrooms") @@ ("bathrooms" :> "Bathrooms") @@ ("flat_area" :> "Flat Area")
    @@ ("lot_area" :> "Lot Area") @@ ("condition" :> "Condition") @@ ("grade" :> "Grade")
    @@ ("zipcode" :> "Zipcode") @@ ("applicant_income" :> "Applicant Income")
    @@ ("coapplicant_income" :> "Coapplicant Income") @@ ("loan_amount" :> "Loan Amount")
    @@ ("loan_term" :> "Loan Term") @@ ("credit_history" :> "Credit History")
    @@ ("property_area" :> "Property Area") @@ ("married" :> "Married")
    @@ ("education" :> "Education")

\* The page the canvas draws, line by line, for one Prediction row.
Render(pred, name) ==
    LET inputs == JsonLoads(pred.input_json)
    IN  << <<"TrustBridge Bank">>,
           <<"Official Financial Analysis Report">>,
           <<"Report ID: TB-", ZeroPad(pred.id, ReportIdWidth)>>,
           <<"Date: ", pred.timestamp>>,
           <<"Client Name: ", name>>,
           <<"Analysis Type: ", TitleOf[pred.type], " Prediction">>,
           <<"Input Parameters:">> >>
        \o [i \in 1..Len(inputs) |-> <<"- ", TitleOf[inputs[i][1]], ": ", inputs[i][3]>>]
        \o << <<"FINAL DETERMINATION: ", pred.result_text>>,
              <<"Analytical Confidence: ", pred.confidence, "%">>,
              <<"DISCLAIMER: This report is for advisory purposes only. Not a formal financial commitment.">>,
              <<"TrustBridge Bank (c) 2026. All Rights Reserved.">> >>

\* ReportResponse without the ownership test.
ReportResponseNoOwnerCheck(table, prediction_id, user) ==
    LET found == GetById(table, prediction_id)
    IN  IF found = <<>> THEN [kind |-> "status", code |-> 404]
        ELSE [kind |-> "file", data |-> Render(found[1], FullName(user)),
              download_name |-> <<"TrustBridge_Report_", found[1].id, ".pdf">>]

\* download_report's answer for prediction_id requested by user:
\* get_or_404, then the ownership test, then the PDF.
ReportResponse(table, prediction_id, user) ==
    LET found == GetById(table, prediction_id)
    IN  IF found = <<>> THEN [kind |-> "status", code |-> 404]
        ELSE IF found[1].user_id # user THEN [kind |-> "status", code |-> 403]
        ELSE [kind |-> "file", data |-> Render(found[1], FullName(user)),
              download_name |-> <<"TrustBridge_Report_", found[1].id, ".pdf">>]

\* ------------------------------------------------------------- responses
NoResp == [kind |-> "none"]
NoReq == [kind |-> "none", user |-> 0, form |-> <<>>, arg |-> 0]
NoLocals == [loaded |-> None, features |-> <<>>, prediction |-> <<>>, result |-> <<>>, pred_id |-> 0]

OfflineMessage(kind) ==
    IF kind = "house" THEN "System Upgrade in Progress: House Model currently offline."
    ELSE "System Upgrade in Progress: Loan Engine currently offline."

ErrorPrefix(kind) == IF kind = "house" THEN "Data processing error: " ELSE "Analysis engine error: "

\* render_template('result.html', error=...) of the early return
OfflineResponse(kind) == [kind |-> "error", error |-> <<OfflineMessage(kind)>>]

\* render_template('result.html', error=f"...: {str(e)}") of the except clause
ExceptResponse(kind, e) == [kind |-> "error", error |-> <<ErrorPrefix(kind), e>>]

\* render_template('result.html', prediction_text=..., ..., pred_id=pred_entry.id)
ResultResponse(kind, text, id) ==
    [kind |-> "result", prediction_text |-> text,
     title |-> IF kind = "house" THEN "Real Estate Appraisal" ELSE "Loan Eligibility Analysis",
     type |-> kind,
     explain |-> IF kind = "house" THEN HouseExplain ELSE LoanExplain,
     pred_id |-> id]

\* str(e) of the exceptions the handlers' except clauses catch
KeyErrorText == "400 Bad Request: The browser (or proxy) sent a request that this server could not understand."
ValueErrorText == "could not convert string to float"
NoneModelText == "'NoneType' object has no attribute 'predict'"
PredictErrorText == "the model's predict raised"
CommitErrorText == "(sqlite3.OperationalError) the commit failed"

ParseErrorText(err) == IF err = "KeyError" THEN KeyErrorText ELSE ValueErrorText

\* -------------------------------------------------------------- the state
Init ==
    /\ fileOnDisk \in [Kinds -> BOOLEAN]
    /\ model = [k \in Kinds |-> None]
    /\ store = <<>>
    /\ pc = [t \in Threads |-> "idle"]
    /\ req = [t \in Threads |-> NoReq]
    /\ loc = [t \in Threads |-> NoLocals]
    /\ outbox = [req |-> NoReq, loc |-> NoLocals, resp |-> NoResp]
    /\ budget = MaxRequests
    /\ loadCount = [k \in Kinds |-> 0]

\* A request is taken by a thread that is not serving one; idle threads are
\* interchangeable, so the lowest-numbered one takes it.
Free(t) ==
    /\ pc[t] = "idle"
    /\ \A s \in Threads : s < t => pc[s] # "idle"
    /\ budget > 0

\* The handler returns: the response goes out, the thread's frame is gone and
\* the thread is free for the next request.
Return(t, request, locals, response) ==
    /\ outbox' = [req |-> request, loc |-> locals, resp |-> response]
    /\ pc' = [pc EXCEPT ![t] = "idle"]
    /\ req' = [req EXCEPT ![t] = NoReq]
    /\ loc' = [loc EXCEPT ![t] = NoLocals]

\* ------------------------------------------------- the environment's steps
\* generate_models.py writes an artifact: joblib.dump(..., MODEL_DIR/<file>.pkl)
SaveArtifact(k) ==
    /\ ~fileOnDisk[k]
    /\ fileOnDisk' = [fileOnDisk EXCEPT ![k] = TRUE]
    /\ UNCHANGED <<model, store, pc, req, loc, outbox, budget, loadCount>>

\* A logged-in client posts a form to /predict-house or /predict-loan and a
\* server thread enters the handler. The handler reads request.form only in
\* its try block and current_user only when it builds the Prediction, so the
\* form is drawn in Score and the user in Commit.
StartPredict(t, k) ==
    /\ Free(t)
    /\ req' = [req EXCEPT ![t] = [NoReq EXCEPT !.kind = k]]
    /\ pc' = [pc EXCEPT ![t] = "check"]
    /\ budget' = budget - 1
    /\ UNCHANGED <<fileOnDisk, model, store, loc, outbox, loadCount>>

\* ------------------------------------------ predict_house / predict_loan
\* CheckModel without the test: every request loads the artifact.
CheckModelAlwaysLoads(t) ==
    /\ pc[t] = "check"
    /\ pc' = [pc EXCEPT ![t] = "load"]
    /\ UNCHANGED <<fileOnDisk, model, store, req, loc, outbox, budget, loadCount>>

\* if house_model is None:
CheckModel(t) ==
    /\ pc[t] = "check"
    /\ pc' = [pc EXCEPT ![t] = IF model[req[t].kind] = None THEN "load" ELSE "score"]
    /\ UNCHANGED <<fileOnDisk, model, store, req, loc, outbox, budget, loadCount>>

\* load_model(path): joblib.load(path) if os.path.exists(path), else None
LoadModel(t) ==
    /\ pc[t] = "load"
    /\ LET k == req[t].kind
       IN  IF fileOnDisk[k]
           THEN /\ loc' = [loc EXCEPT ![t].loaded = Model]
                /\ loadCount' = [loadCount EXCEPT ![k] = @ + 1]
           ELSE /\ loc' = [loc EXCEPT ![t].loaded = None]
                /\ UNCHANGED loadCount
    /\ pc' = [pc EXCEPT ![t] = "assign"]
    /\ UNCHANGED <<fileOnDisk, model, store, req, outbox, budget>>

\* house_model = <the value load_model returned>
AssignModel(t) ==
    /\ pc[t] = "assign"
    /\ model' = [model EXCEPT ![req[t].kind] = loc[t].loaded]
    /\ pc' = [pc EXCEPT ![t] = "recheck"]
    /\ UNCHANGED <<fileOnDisk, store, req, loc, outbox, budget, loadCount>>

\* if house_model is None: return render_template('result.html', error="... offline.")
RecheckModel(t) ==
    /\ pc[t] = "recheck"
    /\ IF model[req[t].kind] = None
       THEN Return(t, req[t], loc[t], OfflineResponse(req[t].kind))
       ELSE /\ pc' = [pc EXCEPT ![t] = "score"]
            /\ UNCHANGED <<req, loc, outbox>>
    /\ UNCHANGED <<fileOnDisk, model, store, budget, loadCount>>

\* The try block up to the result text, for a request with form f:
\* the data dict from request.form, the feature vector, house_model.predict
\* (the global is read here), the text. An exception anywhere goes to the
\* except clause, which returns the error page.
ScoreRequest(t, f) ==
    LET k == req[t].kind
        request == [req[t] EXCEPT !.form = f]
        err == DataError(k, f)
    IN  IF err # "ok"
        THEN Return(t, request, loc[t], ExceptResponse(k, ParseErrorText(err)))
        ELSE LET features == Features(k, Data(k, f))
                 locals == [loc[t] EXCEPT !.features = features]
             IN  IF model[k] = None
                 THEN Return(t, request, locals, ExceptResponse(k, NoneModelText))
                 ELSE \E out \in PredictOutcomes(k, features) :
                        IF out = <<>>
                        THEN Return(t, request, locals, ExceptResponse(k, PredictErrorText))
                        ELSE /\ req' = [req EXCEPT ![t] = request]
                             /\ loc' = [loc EXCEPT ![t] = [locals EXCEPT !.prediction = out,
                                                                  !.result = ResultText(k, out)]]
                             /\ pc' = [pc EXCEPT ![t] = "commit"]
                             /\ UNCHANGED outbox

\* Score with the history row written before the form is validated.
ScoreSavingFirst(t, forms) ==
    /\ pc[t] = "score"
    /\ \E f \in forms[req[t].kind] :
          IF DataError(req[t].kind, f) # "ok"
          THEN /\ \E u \in Users, now \in Times :
                     store' = Insert(store, NewPrediction(store, req[t].kind, <<>>, <<>>, u, now))
               /\ Return(t, [req[t] EXCEPT !.form = f], loc[t],
                         ExceptResponse(req[t].kind, ParseErrorText(DataError(req[t].kind, f))))
          ELSE /\ ScoreRequest(t, f)
               /\ UNCHANGED store
    /\ UNCHANGED <<fileOnDisk, model, budget, loadCount>>

Score(t, forms) ==
    /\ pc[t] = "score"
    /\ \E f \in forms[req[t].kind] : ScoreRequest(t, f)
    /\ UNCHANGED <<fileOnDisk, model, store, budget, loadCount>>

\* Commit with a failed commit swallowed: the result page is returned anyway.
CommitReportingSuccess(t) ==
    /\ pc[t] = "commit"
    /\ \E u \in Users :
         LET k == req[t].kind
             request == [req[t] EXCEPT !.user = u]
         IN  \/ \E now \in Times :
                  LET row == NewPrediction(store, k, Data(k, req[t].form),
                                           loc[t].result, u, now)
                  IN  /\ store' = Insert(store, row)
                      /\ Return(t, request, [loc[t] EXCEPT !.pred_id = row.id],
                                ResultResponse(k, loc[t].result, row.id))
             \/ /\ Return(t, request, loc[t], ResultResponse(k, loc[t].result, 0))
                /\ UNCHANGED store
    /\ UNCHANGED <<fileOnDisk, model, budget, loadCount>>

\* pred_entry = Prediction(...); db.session.add(pred_entry); db.session.commit();
\* return render_template(..., pred_id=pred_entry.id). A commit that fails
\* raises into the except clause and stores nothing.
Commit(t) ==
    /\ pc[t] = "commit"
    /\ \E u \in Users :
         LET k == req[t].kind
             request == [req[t] EXCEPT !.user = u]
         IN  \/ \E now \in Times :
                  LET row == NewPrediction(store, k, Data(k, req[t].form),
                                           loc[t].result, u, now)
                  IN  /\ store' = Insert(store, row)
                      /\ Return(t, request, [loc[t] EXCEPT !.pred_id = row.id],
                                ResultResponse(k, loc[t].result, row.id))
             \/ /\ Return(t, request, loc[t], ExceptResponse(k, CommitErrorText))
                /\ UNCHANGED store
    /\ UNCHANGED <<fileOnDisk, model, budget, loadCount>>

\* ------------------------------------------------------------- dashboard
\* GET /dashboard: the current user's five most recent predictions.
Dashboard(t) ==
    /\ Free(t)
    /\ \E u \in Users, tieAsc \in BOOLEAN :
          Return(t, [kind |-> "dashboard", user |-> u, form |-> <<>>, arg |-> 0], NoLocals,
                 [kind |-> "dashboard", name |-> FullName(u),
                  history |-> History(store, u, tieAsc)])
    /\ budget' = budget - 1
    /\ UNCHANGED <<fileOnDisk, model, store, loadCount>>

\* ------------------------------------------------------- download_report
\* GET /download-report/<prediction_id>
DownloadReport(t) ==
    /\ Free(t)
    /\ \E u \in Users, id \in 1..(Len(store) + 1) :
          Return(t, [kind |-> "report", user |-> u, form |-> <<>>, arg |-> id], NoLocals,
                 ReportResponse(store, id, u))
    /\ budget' = budget - 1
    /\ UNCHANGED <<fileOnDisk, model, store, loadCount>>

\* ------------------------------------------------------------ the system
\* The forms the clients post, per kind.
Forms == [k \in Kinds |-> IF k = "house" THEN HouseForms ELSE LoanForms]

Next ==
    \/ \E k \in Kinds : SaveArtifact(k)
    \/ \E t \in Threads, k \in Kinds : StartPredict(t, k)
    \/ \E t \in Threads : CheckModel(t)
    \/ \E t \in Threads : LoadModel(t)
    \/ \E t \in Threads : AssignModel(t)
    \/ \E t \in Threads : RecheckModel(t)
    \/ \E t \in Threads : Score(t, Forms)
    \/ \E t \in Threads : Commit(t)
    \/ \E t \in Threads : Dashboard(t)
    \/ \E t \in Threads : DownloadReport(t)

Spec == Init /\ [][Next]_vars

\* ------------------------------------------- a database with stored rows
\* The table outlives the process: a run can start on rows that earlier runs
\* committed. PreLen rows are enough for one user to own more than
\* HistoryLimit of them next to a row of somebody else.
PreLen == HistoryLimit + 2

\* The table after n house appraisals, the i-th by owners[i] at stamps[i].
RECURSIVE StoredRows(_, _, _)
StoredRows(owners, stamps, n) ==
    IF n = 0 THEN <<>>
    ELSE LET table == StoredRows(owners, stamps, n - 1)
             price == CHOOSE p \in HousePrices : TRUE
         IN  Insert(table, NewPrediction(table, "house", HouseData(HouseFormOK),
                                         HouseResultText(<<price>>), owners[n], stamps[n]))

\* Every row but at most one belongs to the same user.
OwnerPatterns ==
    { o \in [1..PreLen -> Users] : Cardinality({i \in 1..PreLen : o[i] # o[1]}) <= 1
                                    \/ Cardinality({i \in 1..PreLen : o[i] # o[2]}) <= 1 }

PreStores == { StoredRows(o, s, PreLen) : o \in OwnerPatterns, s \in [1..PreLen -> Times] }

\* One request served by a fresh process on a table with stored rows.
InitHistory ==
    /\ fileOnDisk \in [Kinds -> BOOLEAN]
    /\ model = [k \in Kinds |-> None]
    /\ store \in PreStores
    /\ pc = [t \in Threads |-> "idle"]
    /\ req = [t \in Threads |-> NoReq]
    /\ loc = [t \in Threads |-> NoLocals]
    /\ outbox = [req |-> NoReq, loc |-> NoLocals, resp |-> NoResp]
    /\ budget = 1
    /\ loadCount = [k \in Kinds |-> 0]

SpecHistory == InitHistory /\ [][Next]_vars

\* ------------------------------------------------ the loan form's encoding
\* One loan request, its form drawn from every combination of the raw values.
EncodeForms == [k \in Kinds |-> IF k = "house" THEN {} ELSE AllLoanForms]

InitEncode ==
    /\ fileOnDisk \in [Kinds -> BOOLEAN]
    /\ model = [k \in Kinds |-> None]
    /\ store = <<>>
    /\ pc = [t \in Threads |-> "idle"]
    /\ req = [t \in Threads |-> NoReq]
    /\ loc = [t \in Threads |-> NoLocals]
    /\ outbox = [req |-> NoReq, loc |-> NoLocals, resp |-> NoResp]
    /\ budget = 1
    /\ loadCount = [k \in Kinds |-> 0]

NextEncode ==
    \/ SaveArtifact("loan")
    \/ \E t \in Threads : StartPredict(t, "loan")
    \/ \E t \in Threads : CheckModel(t)
    \/ \E t \in Threads : LoadModel(t)
    \/ \E t \in Threads : AssignModel(t)
    \/ \E t \in Threads : RecheckModel(t)
    \/ \E t \in Threads : Score(t, EncodeForms)
    \/ \E t \in Threads : Commit(t)

SpecEncode == InitEncode /\ [][NextEncode]_vars

\* =============================================================== claims
\* What the response in the outbox says about the request it ended.
Degraded(o) == o.req.kind \in Kinds /\ o.resp = OfflineResponse(o.req.kind)

\* The request's form was read and a field was missing or unparseable.
Invalid(o) ==
    /\ o.req.kind \in Kinds
    /\ o.req.form # <<>>
    /\ DataError(o.req.kind, o.req.form) # "ok"

\* The model was invoked and raised, or gave a loan class other than 0 and 1.
PredictRaised(o) == o.req.kind \in Kinds /\ o.resp = ExceptResponse(o.req.kind, PredictErrorText)
OutOfContract(o) ==
    o.req.kind = "loan" /\ o.loc.prediction # <<>> /\ o.loc.prediction[1] \notin {0, 1}

\* Thread t returns in this step.
Returns(t) == pc[t] # "idle" /\ pc'[t] = "idle"

\* A read handler (dashboard, download_report) runs in this step.
ReadStep(kind) == budget' < budget /\ pc' = pc /\ outbox'.req.kind = kind

\* C1: for each kind, joblib.load runs at most once however many first
\* requests run concurrently.
C1_SingleLoad == \A k \in Kinds : loadCount[k] <= 1

C3_NoRowOnEarlyFailure ==
    [][/\ \A t \in Threads :
            (Returns(t) /\ (Degraded(outbox') \/ Invalid(outbox'))) =>
                /\ store' = store
                /\ outbox'.resp.kind = "error"
                /\ outbox'.loc.pred_id = 0
       /\ store' # store =>
            \E t \in Threads :
                /\ pc[t] = "commit" /\ Returns(t)
                /\ outbox'.resp.kind = "result"
                /\ ~Degraded(outbox') /\ ~Invalid(outbox')]_vars

\* C3 witness: a loan request has ended with a validation error while the
\* table holds a row.
C3_Witness == Invalid(outbox) /\ outbox.req.kind = "loan" /\ Len(store) > 0

\* C4: a loan request whose model output is neither 0 nor 1 ends in an error
\* with no row written, and the output is given neither label.
C4_UnexpectedClassIsFault ==
    /\ OutOfContract(outbox) => outbox.resp.kind = "error" /\ outbox.loc.pred_id = 0
    /\ \A t \in Threads :
          (pc[t] = "commit" /\ req[t].kind = "loan" /\ loc[t].prediction[1] \notin {0, 1}) =>
              loc[t].result \notin {<<"Approved">>, <<"Flagged for Review">>}

\* C5: a result page carries the id of a stored row of the requesting user
\* with the same kind and result text; a request that computed a result but
\* stored no row gets an error page.
C5_SuccessOnlyAfterAudit ==
    outbox.req.kind \in Kinds =>
        /\ outbox.resp.kind = "result" =>
              /\ outbox.resp.pred_id \in 1..Len(store)
              /\ outbox.resp.pred_id = outbox.loc.pred_id
              /\ store[outbox.resp.pred_id].id = outbox.resp.pred_id
              /\ store[outbox.resp.pred_id].user_id = outbox.req.user
              /\ store[outbox.resp.pred_id].type = outbox.req.kind
              /\ store[outbox.resp.pred_id].result_text = outbox.resp.prediction_text
        /\ (outbox.loc.result # <<>> /\ outbox.loc.pred_id = 0) =>
              outbox.resp = ExceptResponse(outbox.req.kind, CommitErrorText)

\* C5 witness: a result page has gone out for the second stored row.
C5_Witness ==
    /\ outbox.req.kind \in Kinds
    /\ outbox.resp.kind = "result"
    /\ outbox.resp.pred_id = 2
    /\ Len(store) >= 2

\* C6: a report request for a row of another user is answered 403, for an id
\* without a row 404, and the file goes out only for a row of the requester.
C6_ReportOnlyToOwner ==
    [][ReadStep("report") =>
          LET id == outbox'.req.arg
              user == outbox'.req.user
              r == outbox'.resp
          IN  /\ (id \in 1..Len(store) /\ store[id].user_id # user) =>
                     r = [kind |-> "status", code |-> 403]
              /\ id \notin 1..Len(store) => r = [kind |-> "status", code |-> 404]
              /\ r.kind = "file" => id \in 1..Len(store) /\ store[id].user_id = user
              /\ r.kind \in {"file", "status"}]_vars

\* C6 witness: a report request for somebody else's row has been refused.
C6_Witness ==
    /\ outbox.req.kind = "report"
    /\ outbox.resp = [kind |-> "status", code |-> 403]
    /\ outbox.req.arg \in 1..Len(store)
    /\ store[outbox.req.arg].user_id # outbox.req.user

\* C7: no step changes or removes a stored row: every row keeps its key and
\* all its field values.
C7_RowsWriteOnce ==
    [][/\ Len(store') >= Len(store)
       /\ \A i \in 1..Len(store) : store'[i] = store[i]]_vars

\* C7 witness: a row was stored, and a later request has stored another or
\* read the table.
C7_Witness ==
    /\ Len(store) >= 1
    /\ \/ Len(store) >= 2
       \/ outbox.resp.kind = "file"

\* C8: the dashboard's history holds only rows of the requesting user, at
\* most HistoryLimit of them, newest first, and they are that user's newest
\* stored rows.
C8_HistoryOwnNewestFive ==
    [][ReadStep("dashboard") =>
          LET h == outbox'.resp.history
              user == outbox'.req.user
              own == {i \in 1..Len(store) : store[i].user_id = user}
              shown == {h[i].id : i \in 1..Len(h)}
          IN  /\ \A i \in 1..Len(h) : h[i].user_id = user
              /\ Len(h) <= HistoryLimit
              /\ \A i, j \in 1..Len(h) : i < j => h[i].timestamp >= h[j].timestamp
              /\ \A i \in 1..Len(h) : h[i].id \in own /\ store[h[i].id] = h[i]
              /\ Cardinality(shown) = Len(h)
              /\ Len(h) = IF Cardinality(own) < HistoryLimit THEN Cardinality(own) ELSE HistoryLimit
              /\ \A i \in own \ shown : \A j \in shown :
                    store[i].timestamp <= store[j].timestamp]_vars

\* C8 witness: a user owning more than HistoryLimit rows, next to a row of
\* another user, has been shown HistoryLimit of them.
C8_Witness ==
    /\ outbox.req.kind = "dashboard"
    /\ Len(outbox.resp.history) = HistoryLimit
    /\ Cardinality({i \in 1..Len(store) : store[i].user_id = outbox.req.user}) > HistoryLimit
    /\ \E i \in 1..Len(store) : store[i].user_id # outbox.req.user
    /\ \E i, j \in 1..Len(store) : i < j /\ store[i].timestamp < store[j].timestamp

\* C9: a request whose model invocation failed or gave an out-of-contract
\* output gets an error whose kind is neither the one validation errors get
\* nor the one of the degraded service.
ErrorKind(r) == r.error[1]

ValidationKinds ==
    { ErrorKind(ExceptResponse(k, ParseErrorText(e))) : k \in Kinds, e \in {"KeyError", "ValueError"} }

DegradedKinds == { ErrorKind(OfflineResponse(k)) : k \in Kinds }

C9_DistinctErrorKinds ==
    (PredictRaised(outbox) \/ OutOfContract(outbox)) =>
        /\ outbox.resp.kind = "error"
        /\ ErrorKind(outbox.resp) \notin ValidationKinds \cup DegradedKinds

\* C10: whenever a loan request's feature vector is built, its last three
\* entries are the area code (Urban 0, Semiurban 1, Rural 2, anything else 0),
\* 1 exactly for married "Yes" and 1 exactly for education "Graduate"; a form
\* with all fields and parseable numbers never ends in a validation error.
ExpectedTail(form) ==
    << IF form.property_area = "Semiurban" THEN 1
       ELSE IF form.property_area = "Rural" THEN 2 ELSE 0,
       IF form.married = "Yes" THEN 1 ELSE 0,
       IF form.education = "Graduate" THEN 1 ELSE 0 >>

TailOk(form, features) ==
    /\ Len(features) = Len(LoanFields)
    /\ SubSeq(features, Len(features) - 2, Len(features)) = ExpectedTail(form)

Complete(form) ==
    /\ DOMAIN form = DOMAIN LoanFormOK
    /\ \A i \in 1..Len(LoanNumFields) : form[LoanNumFields[i]] \in DOMAIN FloatOf

C10_LoanEncodingTail ==
    /\ \A t \in Threads :
          (pc[t] = "commit" /\ req[t].kind = "loan") =>
              Complete(req[t].form) /\ TailOk(req[t].form, loc[t].features)
    /\ (outbox.req.kind = "loan" /\ outbox.req.form # <<>>) =>
          IF Complete(outbox.req.form)
          THEN TailOk(outbox.req.form, outbox.loc.features)
          ELSE outbox.loc.features = <<>> /\ outbox.resp.kind = "error"

\* C10 witness: a form with an unrecognized property_area, married "Yes" and
\* education "Graduate" has been encoded with the tail <<0, 1, 1>>.
C10_Witness ==
    /\ outbox.req.kind = "loan"
    /\ outbox.req.form # <<>>
    /\ Complete(outbox.req.form)
    /\ outbox.req.form.property_area \notin {"Urban", "Semiurban", "Rural"}
    /\ outbox.req.form.married = "Yes"
    /\ outbox.req.form.education = "Graduate"
    /\ SubSeq(outbox.loc.features, 6, 8) = <<0, 1, 1>>

====
